---- MODULE Spec2Model ----
(***************************************************************************)
(* The AI session of the VideoPlayer component (frontend/src/components/   *)
(* VideoPlayer.tsx, props-driven variant, lines 25-306) together with the  *)
(* episode selection of App.tsx.  The session is the aiState object; the   *)
(* component reads it on every render, changes it through                  *)
(* onAiStateChange, and runs two effects after each commit: the start/reset*)
(* effect and the polling effect.  Requests to the backend are messages in *)
(* flight; their responses are delivered in any order.                     *)
(***************************************************************************)
EXTENDS Integers, Sequences, FiniteSets, TLC

\* ---------------------------------------------------------------- bounds
MaxSubmits == 2
MaxPollsInFlight == 2
MaxEpisodes == 2

\* ------------------------------------------------------------- constants
NoTask == 0
NoEpisode == 0
ServerBase == "http://localhost:8000"

TaskIds == 1..MaxSubmits
Episodes == 1..MaxEpisodes

\* result.visualization of a task snapshot: the key may be missing, the
\* object may lack visualization_path, or it carries a path.
NoVisualization == [present |-> FALSE, hasPath |-> FALSE, path |-> ""]
VisualizationWithoutPath == [present |-> TRUE, hasPath |-> FALSE, path |-> ""]
VisualizationAt(p) == [present |-> TRUE, hasPath |-> TRUE, path |-> p]
Paths == {"", "/viz/abc123.mp4"}
Visualizations ==
  {NoVisualization, VisualizationWithoutPath} \cup {VisualizationAt(p) : p \in Paths}

\* aiTaskStatus: null, or the task snapshot (interface AITaskStatus).
\* progress, a fraction of 1, is held in thousandths.
NullStatus == [status |-> "null", progress |-> 0, visualization |-> NoVisualization]
AITaskStatus(s, p, v) == [status |-> s, progress |-> p, visualization |-> v]

\* The progress values a RUNNING task reports: 0.42 and 0.426.
RunningProgress == {420, 426}

\* The snapshots the backend can answer with for a task in status s.
SnapshotsFor(s) ==
  CASE s = "PENDING" -> {AITaskStatus("PENDING", 0, NoVisualization)}
    [] s = "RUNNING" -> {AITaskStatus("RUNNING", p, NoVisualization) : p \in RunningProgress}
    [] s = "COMPLETED" -> {AITaskStatus("COMPLETED", 1000, v) : v \in Visualizations}
    [] s = "FAILED" -> {AITaskStatus("FAILED", 420, NoVisualization)}
    [] OTHER -> {}

\* status is a forward-moving enumeration on the backend
Rank(s) ==
  CASE s = "NONE" -> 0
    [] s = "PENDING" -> 1
    [] s = "RUNNING" -> 2
    [] s = "COMPLETED" -> 3
    [] s = "FAILED" -> 3
TaskStatuses == {"PENDING", "RUNNING", "COMPLETED", "FAILED"}
IsTerminal(s) == s \in {"COMPLETED", "FAILED"}

VARIABLES
  aiState,          \* the session: runAI, aiTaskId, aiTaskStatus, aiError
  selectedEpisode,  \* App: the selected episode, NoEpisode before any click
  startDeps,        \* deps of the start/reset effect at its last run
  pollDeps,         \* deps of the polling effect at its last run
  interval,         \* the aiTaskId captured by the active interval, or NoTask
  submitsInFlight,  \* POST process-video requests not yet answered
  pollsInFlight,    \* GET tasks/{id} requests not yet answered, each with
                    \* the status the backend read for it (requests for one
                    \* task that read the same status are not told apart)
  nextTaskId,       \* the backend's next task id
  backend,          \* backend: task id -> status, "NONE" for a task that
                    \* does not exist or that no poll can read any more
  lastEvent,        \* history: the last event handled
  terminalDelivered,\* history: the task ids still held by the session that
                    \* a terminal snapshot was delivered for
  retryPhase,       \* history: "off" after a toggle-off that directly follows
                    \* a failure, "on" after the toggle-on that directly
                    \* follows that, "none" otherwise
  submitSucceeded,  \* history: a submission succeeded and no reset, toggle-off
                    \* or selection of another episode came after it
  timers,           \* the number of intervals created and not yet cleared
  graph,            \* EpisodeDataGraph: its state and its requests in flight
  tree,             \* App: the tree browser and its requests in flight
  annot,            \* InteractiveVideoPlayer: annotations and the editor
  pathCase          \* an episode path and what getVideoRelativePath made of it

vars == <<aiState, selectedEpisode, startDeps, pollDeps, interval,
          submitsInFlight, pollsInFlight, nextTaskId, backend, lastEvent,
          terminalDelivered, retryPhase, submitSucceeded, timers,
          graph, tree, annot, pathCase>>

\* The components other than the video player.
otherComponents == <<graph, tree, annot, pathCase>>

\* The video player and its backend.
videoPlayer == <<aiState, selectedEpisode, startDeps, pollDeps, interval,
                 submitsInFlight, pollsInFlight, nextTaskId, backend, lastEvent,
                 terminalDelivered, retryPhase, submitSucceeded, timers>>

\* ------------------------------------------------------- component reads
runAI == aiState.runAI
aiTaskId == aiState.aiTaskId
aiTaskStatus == aiState.aiTaskStatus
aiError == aiState.aiError

\* The host merges the partial update into the session object.
onAiStateChange(state, updates) ==
  [k \in DOMAIN state |-> IF k \in DOMAIN updates THEN updates[k] ELSE state[k]]

InitialAiState ==
  [runAI |-> FALSE, aiTaskId |-> NoTask, aiTaskStatus |-> NullStatus, aiError |-> ""]


\* ------------------------------------------------------------- responses
\* What a POST process-video round-trip can come back with.  task_id is
\* the id the backend assigned to the request.
SubmitResponse(net, http, json, success, tid, message) ==
  [netOk |-> net, httpOk |-> http, jsonOk |-> json, success |-> success,
   task_id |-> tid, message |-> message]
SubmitResponses(tid) ==
  { SubmitResponse(TRUE, TRUE, TRUE, TRUE, tid, ""),         \* success
    SubmitResponse(FALSE, FALSE, FALSE, FALSE, NoTask, ""),  \* fetch rejects
    SubmitResponse(TRUE, FALSE, FALSE, FALSE, NoTask, ""),   \* HTTP 500
    SubmitResponse(TRUE, TRUE, FALSE, FALSE, NoTask, ""),    \* body is not JSON
    SubmitResponse(TRUE, TRUE, TRUE, FALSE, NoTask, ""),     \* success: false
    SubmitResponse(TRUE, TRUE, TRUE, FALSE, NoTask, "Video file not found"),
    SubmitResponse(TRUE, TRUE, TRUE, TRUE, NoTask, "") }     \* no task_id
SubmitSucceeds(r) ==
  r.netOk /\ r.httpOk /\ r.jsonOk /\ r.success /\ r.task_id # NoTask

\* What a GET tasks/{id} round-trip can come back with.
PollResponse(tid, net, json, success, data) ==
  [tid |-> tid, netOk |-> net, jsonOk |-> json, success |-> success, data |-> data]
PollResponses(tid, status) ==
  { PollResponse(tid, TRUE, TRUE, TRUE, d) : d \in SnapshotsFor(status) } \cup
  { PollResponse(tid, FALSE, FALSE, FALSE, NullStatus),  \* fetch rejects
    PollResponse(tid, TRUE, FALSE, FALSE, NullStatus),   \* body is not JSON
    PollResponse(tid, TRUE, TRUE, FALSE, NullStatus),    \* success: false
    PollResponse(tid, TRUE, TRUE, TRUE, NullStatus) }    \* no data

\* A submission in flight: the task id the backend will answer with, and
\* (history) whether the toggle has been turned off since it was sent.
SubmitRequest(id, preReset) == [id |-> id, preReset |-> preReset]

\* -------------------------------------------------------- pure functions
\* startAIProcessing without the fallback of `data.message || ...`.
startAIProcessingUpdate_NoFallbackMessage(r) ==
  IF ~r.netOk THEN [aiError |-> "Failed to fetch"]
  ELSE IF ~r.httpOk THEN [aiError |-> "HTTP error! status: 500"]
  ELSE IF ~r.jsonOk THEN [aiError |-> "Unexpected token < in JSON at position 0"]
  ELSE IF r.success /\ r.task_id # NoTask
    THEN [aiTaskId |-> r.task_id,
          aiTaskStatus |-> AITaskStatus("PENDING", 0, NoVisualization)]
  ELSE [aiError |-> r.message]

\* startAIProcessing that installs the task id alone, as the earlier
\* variants of the component do.
startAIProcessingUpdate_TaskIdOnly(r) ==
  IF ~r.netOk THEN [aiError |-> "Failed to fetch"]
  ELSE IF ~r.httpOk THEN [aiError |-> "HTTP error! status: 500"]
  ELSE IF ~r.jsonOk THEN [aiError |-> "Unexpected token < in JSON at position 0"]
  ELSE IF r.success /\ r.task_id # NoTask
    THEN [aiTaskId |-> r.task_id]
  ELSE [aiError |-> IF r.message # "" THEN r.message
                    ELSE "Failed to start AI processing"]

\* startAIProcessing whose catch drops the error of a rejected fetch.
startAIProcessingUpdate_SilentCatch(r) ==
  IF ~r.netOk THEN [aiError |-> ""]
  ELSE IF ~r.httpOk THEN [aiError |-> "HTTP error! status: 500"]
  ELSE IF ~r.jsonOk THEN [aiError |-> "Unexpected token < in JSON at position 0"]
  ELSE IF r.success /\ r.task_id # NoTask
    THEN [aiTaskId |-> r.task_id,
          aiTaskStatus |-> AITaskStatus("PENDING", 0, NoVisualization)]
  ELSE [aiError |-> IF r.message # "" THEN r.message
                    ELSE "Failed to start AI processing"]

\* startAIProcessing after the await: the update it passes to
\* onAiStateChange for response r.
startAIProcessingUpdate(r) ==
  IF ~r.netOk THEN [aiError |-> "Failed to fetch"]
  ELSE IF ~r.httpOk THEN [aiError |-> "HTTP error! status: 500"]
  ELSE IF ~r.jsonOk THEN [aiError |-> "Unexpected token < in JSON at position 0"]
  ELSE IF r.success /\ r.task_id # NoTask
    THEN [aiTaskId |-> r.task_id,
          aiTaskStatus |-> AITaskStatus("PENDING", 0, NoVisualization)]
  ELSE [aiError |-> IF r.message # "" THEN r.message
                    ELSE "Failed to start AI processing"]

\* checkAITaskStatus that passes data.data on for any parsed body.
checkAITaskStatusAccepts_AnyBody(r) ==
  r.netOk /\ r.jsonOk

\* checkAITaskStatus after the await: TRUE when it passes data.data on.
checkAITaskStatusAccepts(r) ==
  r.netOk /\ r.jsonOk /\ r.success /\ r.data # NullStatus

\* getVisualizationUrl that joins base and path with a slash of its own.
getVisualizationUrl_ExtraSlash(status) ==
  IF status.status = "COMPLETED" /\ status.visualization.present
    THEN ServerBase \o "/" \o (IF status.visualization.hasPath
                                  THEN status.visualization.path ELSE "undefined")
    ELSE ""

\* The URL of the visualization video, "" for null.  A template literal
\* renders a missing visualization_path as "undefined".
getVisualizationUrl(status) ==
  IF status.status = "COMPLETED" /\ status.visualization.present
    THEN ServerBase \o (IF status.visualization.hasPath
                          THEN status.visualization.path ELSE "undefined")
    ELSE ""

\* getStatusIndicator that tests the pending statuses before the error.
getStatusIndicator_PendingFirst(status, error) ==
  IF status.status = "COMPLETED" /\ getVisualizationUrl(status) # "" THEN "success"
  ELSE IF status.status = "RUNNING" \/ status.status = "PENDING" THEN "pending"
  ELSE IF status.status = "FAILED" \/ error # "" THEN "error"
  ELSE "empty"

\* The class of the status dot.
getStatusIndicator(status, error) ==
  IF status.status = "COMPLETED" /\ getVisualizationUrl(status) # "" THEN "success"
  ELSE IF status.status = "FAILED" \/ error # "" THEN "error"
  ELSE IF status.status = "RUNNING" \/ status.status = "PENDING" THEN "pending"
  ELSE "empty"

\* Math.round(x) for x >= 0 given in tenths: halves round up.
MathRound(tenths) == (tenths + 5) \div 10

\* The percentage shown while RUNNING:
\* Math.round((aiTaskStatus.progress || 0) * 100).
\* progress is in thousandths, so progress * 100 in tenths is progress.
progressPercent(status) == MathRound((status.progress * 100) \div 100)

visualizationUrl == getVisualizationUrl(aiTaskStatus)
statusIndicator == getStatusIndicator(aiTaskStatus, aiError)

\* ----------------------------------------------------------------- effects
\* The dependency arrays of the two effects for the current render.
StartDepsNow == <<runAI, aiTaskId, aiError>>
PollDepsNow == <<aiTaskId, aiTaskStatus.status>>

\* A commit whose effects have not run yet.
EffectsPending ==
  selectedEpisode # NoEpisode /\ (startDeps # StartDepsNow \/ pollDeps # PollDepsNow)

\* The start branch without its test of aiError, as the earlier variants
\* of the component have it.
StartsProcessing_IgnoresError == runAI /\ aiTaskId = NoTask

\* The two branches of the start/reset effect.
StartsProcessing == runAI /\ aiTaskId = NoTask /\ aiError = ""
ResetsSession == ~runAI /\ aiTaskId # NoTask

\* A polling effect that polls a PENDING task only.
PollingCondition_PendingOnly ==
  aiTaskId # NoTask /\ aiTaskStatus.status = "PENDING"

\* The condition of the polling effect.
PollingCondition ==
  aiTaskId # NoTask /\ (aiTaskStatus.status = "RUNNING" \/ aiTaskStatus.status = "PENDING")

\* The value of each other component's variable while the video player is
\* the component under study.
GraphUnused == "unused"
TreeUnused == "unused"
AnnotUnused == "unused"
PathUnused == "unused"

\* The condition of the polling effect in each variant of the component,
\* for a session that holds taskId and status.
PollingActive_PropsDriven(taskId, status) ==
  taskId # NoTask /\ (status.status = "RUNNING" \/ status.status = "PENDING")
PollingActive_LocalState(taskId, status) ==
  taskId # NoTask
PollingActive_EarlierProps(taskId, status) ==
  taskId # NoTask /\ status.status # "COMPLETED" /\ status.status # "FAILED"
PollingActive_ApiV1(taskId, status) ==
  taskId # NoTask /\ status.status # "COMPLETED" /\ status.status # "FAILED"

VideoPlayerInit ==
  /\ aiState = InitialAiState
  /\ selectedEpisode = NoEpisode
  /\ startDeps = <<FALSE, NoTask, "">>
  /\ pollDeps = <<NoTask, "null">>
  /\ interval = NoTask
  /\ submitsInFlight = {}
  /\ pollsInFlight = {}
  /\ nextTaskId = 1
  /\ backend = [t \in TaskIds |-> "NONE"]
  /\ lastEvent = "init"
  /\ terminalDelivered = {}
  /\ retryPhase = "none"
  /\ submitSucceeded = FALSE
  /\ timers = 0

Init ==
  /\ VideoPlayerInit
  /\ graph = GraphUnused
  /\ tree = TreeUnused
  /\ annot = AnnotUnused
  /\ pathCase = PathUnused

\* FALSE once the component has been torn down.
Mounted == lastEvent # "unmount"

\* App.handleEpisodeClick: the player is re-pointed at episode e.
handleEpisodeClick(e) ==
  /\ UNCHANGED <<timers, otherComponents>>
  /\ Mounted
  /\ ~EffectsPending
  /\ selectedEpisode' = e
  /\ lastEvent' = "select"
  /\ retryPhase' = "none"
  /\ submitSucceeded' = (submitSucceeded /\ e = selectedEpisode)
  /\ UNCHANGED <<aiState, startDeps, pollDeps, interval, submitsInFlight,
                 pollsInFlight, nextTaskId, backend, terminalDelivered>>

\* History: the last event was a failure the user sees, a failed
\* submission or the delivery of a FAILED snapshot.
FailureJustShown ==
  \/ lastEvent = "submitFail"
  \/ lastEvent = "pollOk" /\ aiTaskId # NoTask /\ aiTaskStatus.status = "FAILED"

\* The AI toggle's onChange; the checkbox is disabled while RUNNING.
ToggleAI ==
  /\ UNCHANGED <<timers, otherComponents>>
  /\ Mounted
  /\ selectedEpisode # NoEpisode
  /\ ~EffectsPending
  /\ aiTaskStatus.status # "RUNNING"
  /\ (~runAI /\ aiTaskId = NoTask /\ aiError = "") => nextTaskId <= MaxSubmits
  /\ aiState' = onAiStateChange(aiState, [runAI |-> ~runAI])
  /\ submitsInFlight' = IF runAI
                          THEN {SubmitRequest(m.id, TRUE) : m \in submitsInFlight}
                          ELSE submitsInFlight
  /\ lastEvent' = "toggle"
  /\ retryPhase' = (IF runAI /\ FailureJustShown THEN "off"
                    ELSE IF ~runAI /\ retryPhase = "off" THEN "on"
                    ELSE "none")
  /\ submitSucceeded' = (submitSucceeded /\ ~runAI)
  /\ UNCHANGED <<selectedEpisode, startDeps, pollDeps, interval,
                 pollsInFlight, nextTaskId, backend, terminalDelivered>>

\* A cleanup that clears nothing.
clearInterval_Never(n) == n

\* The cleanup of the polling effect, run before the effect runs again and
\* on unmount: it clears the interval the last run created, if it created one.
clearInterval(n) == IF n > 0 THEN n - 1 ELSE 0

\* The effects of one commit: the start/reset effect, then the polling
\* effect, each only when its deps changed.  Both read the values of the
\* committed render; the reset update lands after them.
RunEffects ==
  /\ UNCHANGED otherComponents
  /\ EffectsPending
  /\ startDeps' = StartDepsNow
  /\ pollDeps' = PollDepsNow
  /\ LET startRuns == startDeps # StartDepsNow
         pollRuns == pollDeps # PollDepsNow
     IN /\ IF startRuns /\ StartsProcessing
             THEN /\ submitsInFlight' = submitsInFlight \cup
                                          {SubmitRequest(nextTaskId, FALSE)}
                  /\ nextTaskId' = nextTaskId + 1
                  /\ aiState' = onAiStateChange(aiState, [aiError |-> ""])
                  /\ UNCHANGED <<backend, terminalDelivered, submitSucceeded>>
             ELSE /\ UNCHANGED <<submitsInFlight, nextTaskId>>
                  /\ IF startRuns /\ ResetsSession
                       THEN /\ aiState' = onAiStateChange(aiState,
                                 [runAI |-> FALSE, aiTaskId |-> NoTask,
                                  aiTaskStatus |-> NullStatus, aiError |-> ""])
                            /\ backend' = [t \in TaskIds |-> "NONE"]
                            /\ terminalDelivered' = {}
                            /\ submitSucceeded' = FALSE
                       ELSE UNCHANGED <<aiState, backend, terminalDelivered,
                                        submitSucceeded>>
        /\ interval' = IF pollRuns
                         THEN (IF PollingCondition THEN aiTaskId ELSE NoTask)
                         ELSE interval
       /\ timers' = IF pollRuns
                       THEN clearInterval(timers) + (IF PollingCondition THEN 1 ELSE 0)
                       ELSE timers
  /\ UNCHANGED <<selectedEpisode, pollsInFlight, lastEvent, retryPhase>>

\* The backend after it created task t.  The session drops the task it
\* held before (its interval is replaced), so no poll reads that one again.
Created(t) == [u \in TaskIds |-> IF u = t THEN "PENDING" ELSE "NONE"]

\* A submission's response arrives and startAIProcessing resumes.
DeliverSubmit(m, r) ==
  /\ UNCHANGED <<timers, otherComponents>>
  /\ Mounted
  /\ m \in submitsInFlight
  /\ r \in SubmitResponses(m.id)
  /\ ~EffectsPending
  /\ submitsInFlight' = submitsInFlight \ {m}
  /\ aiState' = onAiStateChange(aiState, startAIProcessingUpdate(r))
  /\ backend' = IF SubmitSucceeds(r) THEN Created(m.id) ELSE backend
  /\ terminalDelivered' = IF SubmitSucceeds(r) THEN {} ELSE terminalDelivered
  /\ lastEvent' = (IF SubmitSucceeds(r) THEN "submitOk" ELSE "submitFail")
  /\ retryPhase' = "none"
  /\ submitSucceeded' = (submitSucceeded \/ SubmitSucceeds(r))
  /\ UNCHANGED <<selectedEpisode, startDeps, pollDeps, interval, pollsInFlight,
                 nextTaskId>>

\* The interval fires: checkAITaskStatus of the render that created it
\* issues a poll for the task id it captured; the backend reads the task.
TimerTick ==
  /\ UNCHANGED <<timers, otherComponents>>
  /\ Mounted
  /\ interval # NoTask
  /\ ~EffectsPending
  /\ Cardinality(pollsInFlight) < MaxPollsInFlight
  /\ pollsInFlight' = pollsInFlight \cup {[tid |-> interval, status |-> backend[interval]]}
  /\ lastEvent' = "tick"
  /\ retryPhase' = "none"
  /\ UNCHANGED <<aiState, selectedEpisode, startDeps, pollDeps, interval,
                 submitsInFlight, nextTaskId, backend, terminalDelivered,
                 submitSucceeded>>

\* A poll's response r arrives for request m and checkAITaskStatus resumes.
DeliverPoll(m, r) ==
  /\ UNCHANGED <<timers, otherComponents>>
  /\ Mounted
  /\ m \in pollsInFlight
  /\ r \in PollResponses(m.tid, m.status)
  /\ ~EffectsPending
  /\ pollsInFlight' = pollsInFlight \ {m}
  /\ aiState' = IF checkAITaskStatusAccepts(r)
                  THEN onAiStateChange(aiState, [aiTaskStatus |-> r.data])
                  ELSE aiState
  /\ terminalDelivered' =
       IF checkAITaskStatusAccepts(r) /\ IsTerminal(r.data.status) /\ r.tid = aiTaskId
         THEN terminalDelivered \cup {r.tid} ELSE terminalDelivered
  /\ lastEvent' = (IF checkAITaskStatusAccepts(r) THEN "pollOk" ELSE "pollFail")
  /\ retryPhase' = "none"
  /\ UNCHANGED <<selectedEpisode, startDeps, pollDeps, interval, submitsInFlight,
                 nextTaskId, backend, submitSucceeded>>

\* The component is torn down with the page: React runs the cleanup of
\* the polling effect, and nothing of the component runs afterwards.
Unmount ==
  /\ UNCHANGED otherComponents
  /\ Mounted
  /\ selectedEpisode # NoEpisode
  /\ ~EffectsPending
  /\ interval' = NoTask
  /\ timers' = clearInterval(timers)
  /\ lastEvent' = "unmount"
  /\ UNCHANGED <<aiState, selectedEpisode, startDeps, pollDeps, submitsInFlight,
                 pollsInFlight, nextTaskId, backend, terminalDelivered,
                 retryPhase, submitSucceeded>>

\* The backend moves a task forward.
BackendAdvance(t, s) ==
  /\ UNCHANGED <<timers, otherComponents>>
  /\ Mounted
  /\ backend[t] # "NONE"
  /\ Rank(s) > Rank(backend[t])
  /\ backend' = [backend EXCEPT ![t] = s]
  /\ UNCHANGED <<aiState, selectedEpisode, startDeps, pollDeps, interval,
                 submitsInFlight, pollsInFlight, nextTaskId, lastEvent,
                 terminalDelivered, retryPhase, submitSucceeded>>

Next ==
  \/ \E e \in Episodes : handleEpisodeClick(e)
  \/ ToggleAI
  \/ RunEffects
  \/ \E m \in submitsInFlight : \E r \in SubmitResponses(m.id) : DeliverSubmit(m, r)
  \/ TimerTick
  \/ \E m \in pollsInFlight : \E r \in PollResponses(m.tid, m.status) : DeliverPoll(m, r)
  \/ \E t \in TaskIds : \E s \in TaskStatuses : BackendAdvance(t, s)
  \/ Unmount

Spec == Init /\ [][Next]_vars

\* A poll round-trip that succeeds.
PollSucceeds ==
  \E m \in pollsInFlight : \E r \in PollResponses(m.tid, m.status) :
    DeliverPoll(m, r) /\ checkAITaskStatusAccepts(r)

\* Scheduling: React runs the effects of every commit, an active interval
\* keeps firing, the backend finishes every task, and poll round-trips
\* succeed again and again.  The user's events are under no obligation.
Fairness ==
  /\ WF_vars(RunEffects)
  /\ WF_vars(TimerTick)
  /\ WF_vars(\E t \in TaskIds : \E s \in TaskStatuses : BackendAdvance(t, s))
  /\ SF_vars(PollSucceeds)

FairSpec == Spec /\ Fairness


\* ------------------------------------------------------------------ claims

\* C1: once a poll response with status COMPLETED or FAILED has been
\* delivered for a taskId, no further poll request is issued for that taskId.
C1_NoPollAfterTerminal ==
  lastEvent = "tick" => interval \notin terminalDelivered

\* C2: a poll response requested for a taskId the session no longer holds
\* is discarded: its delivery leaves aiTaskStatus, aiTaskId and aiError as
\* they were.
C2_StaleResponseDiscarded ==
  [][\A m \in pollsInFlight : \A r \in PollResponses(m.tid, m.status) :
       (DeliverPoll(m, r) /\ m.tid # aiTaskId) => UNCHANGED aiState]_vars

\* C3: after the toggle is turned off and the effects have run, aiError,
\* aiTaskId and aiTaskStatus are all absent.
C3_ToggleOffClears ==
  (lastEvent = "toggle" /\ ~runAI /\ ~EffectsPending)
    => (aiError = "" /\ aiTaskId = NoTask /\ aiTaskStatus = NullStatus)

\* C4: getVisualizationUrl returns a URL if and only if the snapshot is
\* COMPLETED and carries a non-empty visualization_path.
C4_UrlIffCompletedWithPath ==
  (visualizationUrl # "") <=>
    (/\ aiTaskStatus.status = "COMPLETED"
     /\ aiTaskStatus.visualization.hasPath
     /\ aiTaskStatus.visualization.path # "")

\* C5: at most one submission request is in flight at any time.
C5_SingleSubmissionInFlight ==
  Cardinality(submitsInFlight) <= 1

\* C6: after a different episode is selected the session holds no taskId,
\* no status, no error and no visualization URL.
C6_SelectionResets ==
  [][\A e \in Episodes :
       (handleEpisodeClick(e) /\ selectedEpisode # NoEpisode /\ e # selectedEpisode)
         => (/\ aiTaskId' = NoTask
             /\ aiTaskStatus' = NullStatus
             /\ aiError' = ""
             /\ visualizationUrl' = "")]_vars

\* C7: when a submission fails, in any of its ways, aiError is set to the
\* non-empty message of the failure and the failure assigns no taskId.
C7_FailureSetsError ==
  [][\A m \in submitsInFlight : \A r \in SubmitResponses(m.id) :
       (DeliverSubmit(m, r) /\ ~SubmitSucceeds(r))
         => (aiError' # "" /\ aiTaskId' = aiTaskId)]_vars
C7_Witness ==
  lastEvent = "submitFail" /\ aiError # "" /\ aiTaskId = NoTask

\* C8: after a failed submission has been handled, runAI is false.
C8_FailureDisablesToggle ==
  lastEvent = "submitFail" => ~runAI

\* C9: a successful submission installs its task_id together with the
\* synthesized status PENDING, progress 0, in one update.
C9_SuccessInstallsPending ==
  [][\A m \in submitsInFlight : \A r \in SubmitResponses(m.id) :
       (DeliverSubmit(m, r) /\ SubmitSucceeds(r))
         => (/\ aiTaskId' = r.task_id
             /\ aiTaskStatus'.status = "PENDING"
             /\ aiTaskStatus'.progress = 0)]_vars
C9_Witness ==
  /\ lastEvent = "submitOk"
  /\ aiTaskId # NoTask
  /\ aiTaskStatus = AITaskStatus("PENDING", 0, NoVisualization)

\* C10: when a poll delivers COMPLETED with visualization_path p, the
\* visualization URL is the server base followed by p, unaltered, and
\* the status indicator is success.
C10_UrlIsBasePlusPath ==
  [][\A m \in pollsInFlight : \A r \in PollResponses(m.tid, m.status) :
       (/\ DeliverPoll(m, r)
        /\ checkAITaskStatusAccepts(r)
        /\ r.data.status = "COMPLETED"
        /\ r.data.visualization.hasPath)
         => (/\ visualizationUrl' = ServerBase \o r.data.visualization.path
             /\ statusIndicator' = "success")]_vars
C10_Witness ==
  /\ lastEvent = "pollOk"
  /\ visualizationUrl = "http://localhost:8000/viz/abc123.mp4"
  /\ statusIndicator = "success"

\* C11: for a COMPLETED snapshot without a visualization the status
\* indicator is error and the visualization URL is absent.
C11_CompletedWithoutVisualizationIsError ==
  (aiTaskStatus.status = "COMPLETED" /\ ~aiTaskStatus.visualization.present)
    => (statusIndicator = "error" /\ visualizationUrl = "")

\* C12: for PENDING and RUNNING the indicator is pending without an
\* aiError and error with one; for RUNNING the percentage shown is the
\* integer nearest to progress * 100.
C12_PendingIndicatorAndProgress ==
  /\ aiTaskStatus.status \in {"PENDING", "RUNNING"}
       => statusIndicator = (IF aiError = "" THEN "pending" ELSE "error")
  /\ aiTaskStatus.status = "RUNNING"
       => /\ 10 * progressPercent(aiTaskStatus) - 5 <= aiTaskStatus.progress
          /\ aiTaskStatus.progress < 10 * progressPercent(aiTaskStatus) + 5
C12_Witness ==
  /\ aiTaskStatus.status = "RUNNING"
  /\ aiTaskStatus.progress = 420
  /\ progressPercent(aiTaskStatus) = 42
  /\ aiError # ""
  /\ statusIndicator = "error"

\* C13: a failed poll round-trip leaves aiTaskStatus, aiTaskId and aiError
\* as they were and leaves the interval in place, and the interval can
\* fire again after it.
C13_FailedPollChangesNothing ==
  /\ [][\A m \in pollsInFlight : \A r \in PollResponses(m.tid, m.status) :
          (DeliverPoll(m, r) /\
             (~r.netOk \/ ~r.jsonOk \/ ~r.success \/ r.data = NullStatus))
            => UNCHANGED <<aiState, interval>>]_vars
  /\ []((lastEvent = "pollFail" /\ interval # NoTask) => ENABLED TimerTick)
C13_Witness ==
  /\ lastEvent = "pollFail"
  /\ interval # NoTask
  /\ interval = aiTaskId
  /\ aiTaskStatus.status = "RUNNING"

\* C14: the response of a submission made before the toggle was turned
\* off does not install its task id once the toggle is on again.
C14_LateSubmitNotInstalled ==
  [][\A m \in submitsInFlight : \A r \in SubmitResponses(m.id) :
       (DeliverSubmit(m, r) /\ m.preReset /\ runAI) => aiTaskId' # m.id]_vars

\* C15: after a failed submission or a FAILED snapshot, toggling off and
\* then on again leaves aiTaskId, aiTaskStatus and aiError absent and the
\* effects of the toggle-on issue exactly one new submission.
C15_RetryByRetoggle ==
  [][(RunEffects /\ retryPhase = "on")
       => /\ aiTaskId = NoTask
          /\ aiTaskStatus = NullStatus
          /\ aiError = ""
          /\ nextTaskId' = nextTaskId + 1
          /\ Cardinality(submitsInFlight') = Cardinality(submitsInFlight) + 1]_vars

\* C16: a submission is issued only by the effects that directly follow a
\* toggle event, so after a failed submission or a FAILED snapshot none is
\* issued until the user toggles.
C16_NoAutomaticRetry ==
  [][nextTaskId' # nextTaskId => lastEvent = "toggle"]_vars
C16_Witness ==
  /\ lastEvent = "submitFail"
  /\ runAI
  /\ aiTaskId = NoTask
  /\ aiError # ""
  /\ submitsInFlight = {}
  /\ ~EffectsPending

\* C17: once the effects have run, aiTaskId is present exactly when a
\* submission has succeeded and the session has not been reset since.
C17_TaskIdIffSucceeded ==
  ~EffectsPending => (aiTaskId # NoTask <=> submitSucceeded)

\* C18: once the effects have run and with no submission in flight, a
\* session whose toggle is on holds a task id or an aiError.
C18_TaskOrErrorWhileOn ==
  (~EffectsPending /\ submitsInFlight = {} /\ runAI)
    => (aiTaskId # NoTask \/ aiError # "")
C18_Witness ==
  /\ runAI
  /\ ~EffectsPending
  /\ submitsInFlight = {}
  /\ aiTaskId = NoTask
  /\ aiError = "Failed to start AI processing"

\* C19: when the component is torn down or another episode is selected,
\* no interval remains active.
C19_TimerCancelledOnContextChange ==
  [][(\/ Unmount
      \/ \E e \in Episodes :
           handleEpisodeClick(e) /\ selectedEpisode # NoEpisode /\ e # selectedEpisode)
       => interval' = NoTask]_vars

\* C20: while a mounted session holds a task id with status PENDING or
\* RUNNING, the interval for that task id is active once the effects have
\* run; and such a session eventually holds a COMPLETED or FAILED
\* snapshot, unless it is reset or torn down first.
C20_PollingReachesTerminal ==
  /\ []((/\ Mounted
         /\ ~EffectsPending
         /\ aiTaskId # NoTask
         /\ aiTaskStatus.status \in {"PENDING", "RUNNING"}) => interval = aiTaskId)
  /\ (aiTaskId # NoTask /\ aiTaskStatus.status \in {"PENDING", "RUNNING"})
       ~> (\/ aiTaskStatus.status \in {"COMPLETED", "FAILED"}
           \/ aiTaskId = NoTask
           \/ ~Mounted)
C20_Witness ==
  /\ aiTaskId # NoTask
  /\ aiTaskStatus.status = "COMPLETED"
  /\ lastEvent = "pollOk"
  /\ interval = NoTask
  /\ runAI

\* C21: right after a submission succeeds and its task id is installed,
\* aiError is absent.
C21_SuccessClearsError ==
  (lastEvent = "submitOk" /\ aiTaskId # NoTask) => aiError = ""

\* C22: once a terminal snapshot has been delivered for the task id the
\* session holds, the status stays COMPLETED or FAILED for as long as that
\* task id is held.
C22_TerminalStaysTerminal ==
  [][(/\ aiTaskId \in terminalDelivered
      /\ IsTerminal(aiTaskStatus.status)
      /\ aiTaskId' = aiTaskId) => IsTerminal(aiTaskStatus'.status)]_vars

\* C24: at most one interval is active at any time, and it is the one the
\* component's polling effect holds.
C24_AtMostOneTimer ==
  /\ timers <= 1
  /\ timers = 1 <=> interval # NoTask
C24_Witness ==
  /\ timers = 1
  /\ lastEvent = "pollOk"
  /\ aiTaskStatus.status = "RUNNING"
  /\ interval = aiTaskId
  /\ ~EffectsPending

\* C25: in every state of the session, each of the four variants has its
\* polling timer active exactly when a task id is held and the last known
\* status is PENDING or RUNNING.
C25_VariantsAgreeOnPolling ==
  LET expected == aiTaskId # NoTask /\ aiTaskStatus.status \in {"PENDING", "RUNNING"}
  IN /\ PollingActive_PropsDriven(aiTaskId, aiTaskStatus) <=> expected
     /\ PollingActive_LocalState(aiTaskId, aiTaskStatus) <=> expected
     /\ PollingActive_EarlierProps(aiTaskId, aiTaskStatus) <=> expected
     /\ PollingActive_ApiV1(aiTaskId, aiTaskStatus) <=> expected


\* ------------------------------------------------- the path sent on submit
\* Strings are sequences of characters here, so that replace can search them.
VideoPrefix == <<"/", "v", "i", "d", "e", "o", "/">>

\* The ids the backend lists for scenarios, scenes and episodes.
PathIds ==
  { <<"a">>,
    <<"v", "i", "d", "e", "o">>,
    <<"s", "_", "1">>,
    <<"e", ".", "m", "p", "4">>,
    <<"v">> }

\* The first index at which pat occurs in s, 0 when it does not occur.
IndexOf(s, pat) ==
  LET hits == {i \in 1..(Len(s) - Len(pat) + 1) : SubSeq(s, i, i + Len(pat) - 1) = pat}
  IN IF hits = {} THEN 0 ELSE CHOOSE i \in hits : \A j \in hits : i <= j

\* String.prototype.replace(pat, '') with a string pattern: the first
\* occurrence only.
StringReplace(s, pat) ==
  LET i == IndexOf(s, pat)
  IN IF i = 0 THEN s
     ELSE SubSeq(s, 1, i - 1) \o SubSeq(s, i + Len(pat), Len(s))

\* replaceAll(pat, ''): every occurrence, left to right.
RECURSIVE StringReplaceAll(_, _)
StringReplaceAll(s, pat) ==
  LET i == IndexOf(s, pat)
  IN IF i = 0 THEN s
     ELSE SubSeq(s, 1, i - 1) \o StringReplaceAll(SubSeq(s, i + Len(pat), Len(s)), pat)

\* getVideoRelativePath that strips every '/video/'.
getVideoRelativePath_ReplaceAll(episodePath) == StringReplaceAll(episodePath, VideoPrefix)

\* getVideoRelativePath: episodePath.replace('/video/', '').
getVideoRelativePath(episodePath) == StringReplace(episodePath, VideoPrefix)

\* The episodePath App.handleEpisodeClick builds.
EpisodePathOf(scenarioId, sceneId, episodeId) ==
  VideoPrefix \o scenarioId \o <<"/">> \o sceneId \o <<"/">> \o episodeId

PathInit ==
  /\ VideoPlayerInit
  /\ graph = GraphUnused
  /\ tree = TreeUnused
  /\ annot = AnnotUnused
  /\ \E sc \in PathIds, sn \in PathIds, ep \in PathIds :
       pathCase = [scenarioId |-> sc, sceneId |-> sn, episodeId |-> ep,
                   episodePath |-> <<>>, sent |-> FALSE, video_relative_path |-> <<>>]

\* App.handleEpisodeClick for the episode of pathCase.
PathEpisodeClick ==
  /\ pathCase.episodePath = <<>>
  /\ pathCase' = [pathCase EXCEPT !.episodePath =
                    EpisodePathOf(pathCase.scenarioId, pathCase.sceneId, pathCase.episodeId)]
  /\ UNCHANGED <<videoPlayer, graph, tree, annot>>

\* startAIProcessing builds the request body for the selected episode.
PathSubmit ==
  /\ pathCase.episodePath # <<>>
  /\ ~pathCase.sent
  /\ pathCase' = [pathCase EXCEPT !.sent = TRUE,
                    !.video_relative_path = getVideoRelativePath(pathCase.episodePath)]
  /\ UNCHANGED <<videoPlayer, graph, tree, annot>>

PathNext == PathEpisodeClick \/ PathSubmit

PathSpec == PathInit /\ [][PathNext]_vars

\* C30: the video_relative_path sent on submit is the episodePath without
\* its leading '/video/': scenarioId/sceneId/episodeId, also when that
\* itself contains '/video/'.
C30_RelativePathIsRest ==
  pathCase.sent =>
    /\ pathCase.video_relative_path =
         pathCase.scenarioId \o <<"/">> \o pathCase.sceneId \o <<"/">> \o pathCase.episodeId
    /\ VideoPrefix \o pathCase.video_relative_path = pathCase.episodePath
C30_Witness ==
  /\ pathCase.sent
  /\ pathCase.sceneId = <<"v", "i", "d", "e", "o">>
  /\ IndexOf(pathCase.video_relative_path, VideoPrefix) # 0


\* ------------------------------------------------------- EpisodeDataGraph
MaxGraphRequests == 2

\* data: where the points came from (and for which episode) and how many.
NoData == [kind |-> "none", episode |-> NoEpisode, points |-> 0]
ApiPoints == 3
ApiData(e) == [kind |-> "api", episode |-> e, points |-> ApiPoints]

\* generateMockData: one point for each i of 0 .. timePoints - 1.
timePoints == 100
generateMockData ==
  [kind |-> "mock", episode |-> NoEpisode, points |-> Cardinality(0..(timePoints - 1))]

\* A response to GET episodes/{path}/data.
GraphResponse(netOk, httpOk, jsonOk, success, hasPoints, message) ==
  [netOk |-> netOk, httpOk |-> httpOk, jsonOk |-> jsonOk, success |-> success,
   hasPoints |-> hasPoints, message |-> message]
GraphResponses ==
  { GraphResponse(TRUE, TRUE, TRUE, TRUE, TRUE, ""),            \* data_points
    GraphResponse(FALSE, FALSE, FALSE, FALSE, FALSE, ""),       \* fetch rejects
    GraphResponse(TRUE, FALSE, FALSE, FALSE, FALSE, ""),        \* HTTP 500
    GraphResponse(TRUE, TRUE, FALSE, FALSE, FALSE, ""),         \* body is not JSON
    GraphResponse(TRUE, TRUE, TRUE, FALSE, FALSE, "Episode not found"),
    GraphResponse(TRUE, TRUE, TRUE, TRUE, FALSE, "") }          \* no data_points
GraphSucceeds(r) == r.netOk /\ r.httpOk /\ r.jsonOk /\ r.success /\ r.hasPoints

\* fetchEpisodeData after the await, for the response r to a request for
\* episode e: the state updates of the try, the catch and the finally.
fetchEpisodeDataUpdate(g, e, r) ==
  IF GraphSucceeds(r)
    THEN [g EXCEPT !.data = ApiData(e), !.loading = FALSE]
    ELSE [g EXCEPT
            !.error = IF ~r.netOk THEN "Failed to fetch"
                      ELSE IF ~r.httpOk THEN "HTTP error! status: 500"
                      ELSE IF ~r.jsonOk THEN "Unexpected token < in JSON at position 0"
                      ELSE IF r.message # "" THEN r.message
                      ELSE "Failed to load episode data",
            !.data = generateMockData,
            !.loading = FALSE]

\* renderGraph: which of its four views it returns.
renderGraph(g) ==
  IF g.loading THEN "loading"
  ELSE IF g.error # "" THEN "error"
  ELSE IF g.data.points = 0 THEN "empty"
  ELSE "graph"

GraphInit ==
  /\ VideoPlayerInit
  /\ tree = TreeUnused
  /\ annot = AnnotUnused
  /\ pathCase = PathUnused
  /\ \E e \in Episodes :
       graph = [episodePath |-> e, deps |-> NoEpisode, data |-> NoData,
                loading |-> TRUE, error |-> "", inFlight |-> {}, lastEvent |-> "mount"]

\* The effect with deps [episodePath] is due.
GraphEffectPending == graph.deps # graph.episodePath

\* The parent renders the graph for another episode.
GraphSetEpisodePath(e) ==
  /\ ~GraphEffectPending
  /\ e # graph.episodePath
  /\ graph' = [graph EXCEPT !.episodePath = e, !.lastEvent = "path"]
  /\ UNCHANGED <<videoPlayer, tree, annot, pathCase>>

\* The effect runs fetchEpisodeData up to its await.
GraphRunEffect ==
  /\ GraphEffectPending
  /\ Cardinality(graph.inFlight \cup {[episodePath |-> graph.episodePath]}) <= MaxGraphRequests
  /\ graph' = [graph EXCEPT !.deps = graph.episodePath,
                            !.loading = TRUE,
                            !.error = "",
                            !.inFlight = @ \cup {[episodePath |-> graph.episodePath]}]
  /\ UNCHANGED <<videoPlayer, tree, annot, pathCase>>

\* The response r to request m arrives and fetchEpisodeData resumes.
GraphDeliver(m, r) ==
  /\ m \in graph.inFlight
  /\ r \in GraphResponses
  /\ ~GraphEffectPending
  /\ graph' = [fetchEpisodeDataUpdate(graph, m.episodePath, r) EXCEPT
                 !.inFlight = graph.inFlight \ {m},
                 !.lastEvent = IF GraphSucceeds(r) THEN "ok" ELSE "fail"]
  /\ UNCHANGED <<videoPlayer, tree, annot, pathCase>>

GraphNext ==
  \/ \E e \in Episodes : GraphSetEpisodePath(e)
  \/ GraphRunEffect
  \/ \E m \in graph.inFlight : \E r \in GraphResponses : GraphDeliver(m, r)

GraphSpec == GraphInit /\ [][GraphNext]_vars

\* C23: after a failed episode-data request has been handled, the graph
\* view is rendered and it shows the 100 mock data points.
C23_FailureShowsMockData ==
  graph.lastEvent = "fail"
    => /\ renderGraph(graph) = "graph"
       /\ graph.data.kind = "mock"
       /\ graph.data.points = 100

\* C26: the response to a request for an episodePath that is no longer the
\* current one leaves data, error and loading as they were.
C26_LateGraphResponseDiscarded ==
  [][\A m \in graph.inFlight : \A r \in GraphResponses :
       (GraphDeliver(m, r) /\ m.episodePath # graph.episodePath)
         => /\ graph'.data = graph.data
            /\ graph'.error = graph.error
            /\ graph'.loading = graph.loading]_vars


\* ------------------------------------------------------ App: tree browser
\* What the backend lists.  Scene ids repeat across scenarios.
ScenarioIds == {"lab", "kitchen"}
SceneIds == {"scene_1", "scene_2"}
SceneList(scenarioId) ==
  IF scenarioId = "lab" THEN {"scene_1", "scene_2"} ELSE {"scene_1"}
EpisodeList(scenarioId, sceneId) ==
  IF sceneId = "scene_1" THEN {"episode_1.mp4"} ELSE {}

\* The key of the episodes map: `${scenarioId}-${sceneId}`.
EpisodesKey(scenarioId, sceneId) == scenarioId \o "-" \o sceneId
EpisodesKeys == {EpisodesKey(sc, sn) : sc \in ScenarioIds, sn \in SceneIds}

\* An entry of the scenes or episodes map; loaded FALSE is undefined.
NotLoaded == [loaded |-> FALSE, list |-> {}]
Loaded(list) == [loaded |-> TRUE, list |-> list]

\* How a list request ends: the body carries the list, the body parses but
\* has no list (`data.scenes || []`), or the await throws.
ListOutcomes == {"list", "nolist", "throws"}

\* No scenario, scene or key: null.
None == ""

TreeInit ==
  /\ VideoPlayerInit
  /\ graph = GraphUnused
  /\ annot = AnnotUnused
  /\ pathCase = PathUnused
  /\ tree = [loading |-> TRUE,
             scenarios |-> {},
             expandedScenario |-> None,
             expandedScene |-> None,
             scenes |-> [sc \in ScenarioIds |-> NotLoaded],
             episodes |-> [k \in EpisodesKeys |-> NotLoaded],
             loadingScenes |-> None,
             loadingEpisodes |-> None,
             scenariosInFlight |-> TRUE,
             scenesInFlight |-> {},
             episodesInFlight |-> {}]

\* fetchScenarios after the await.
DeliverScenarios(outcome) ==
  /\ tree.scenariosInFlight
  /\ tree' = [tree EXCEPT
                !.scenariosInFlight = FALSE,
                !.scenarios = IF outcome = "list" THEN ScenarioIds
                              ELSE IF outcome = "nolist" THEN {}
                              ELSE @,
                !.loading = FALSE]
  /\ UNCHANGED <<videoPlayer, graph, annot, pathCase>>

\* handleScenarioClick that leaves the expanded scene as it is.
handleScenarioClick_KeepsScene(scenarioId) ==
  /\ ~tree.loading
  /\ scenarioId \in tree.scenarios
  /\ IF tree.expandedScenario = scenarioId
       THEN tree' = [tree EXCEPT !.expandedScenario = None]
       ELSE tree' = [tree EXCEPT
                       !.expandedScenario = scenarioId,
                       !.loadingScenes = IF tree.scenes[scenarioId].loaded
                                           THEN @ ELSE scenarioId,
                       !.scenesInFlight = IF tree.scenes[scenarioId].loaded
                                            THEN @ ELSE @ \cup {scenarioId}]
  /\ UNCHANGED <<videoPlayer, graph, annot, pathCase>>

\* handleScenarioClick, with fetchScenes up to its await.
handleScenarioClick(scenarioId) ==
  /\ ~tree.loading
  /\ scenarioId \in tree.scenarios
  /\ IF tree.expandedScenario = scenarioId
       THEN tree' = [tree EXCEPT !.expandedScenario = None, !.expandedScene = None]
       ELSE tree' = [tree EXCEPT
                       !.expandedScenario = scenarioId,
                       !.expandedScene = None,
                       !.loadingScenes = IF tree.scenes[scenarioId].loaded
                                           THEN @ ELSE scenarioId,
                       !.scenesInFlight = IF tree.scenes[scenarioId].loaded
                                            THEN @ ELSE @ \cup {scenarioId}]
  /\ UNCHANGED <<videoPlayer, graph, annot, pathCase>>

\* The scene header of sceneId is rendered under scenarioId.
SceneShown(scenarioId, sceneId) ==
  /\ ~tree.loading
  /\ scenarioId \in tree.scenarios
  /\ tree.expandedScenario = scenarioId
  /\ tree.loadingScenes # scenarioId
  /\ sceneId \in tree.scenes[scenarioId].list

\* handleSceneClick, with fetchEpisodes up to its await.
handleSceneClick(scenarioId, sceneId) ==
  /\ SceneShown(scenarioId, sceneId)
  /\ LET key == EpisodesKey(scenarioId, sceneId)
     IN IF tree.expandedScene = sceneId
          THEN tree' = [tree EXCEPT !.expandedScene = None]
          ELSE tree' = [tree EXCEPT
                          !.expandedScene = sceneId,
                          !.loadingEpisodes = IF tree.episodes[key].loaded
                                                THEN @ ELSE key,
                          !.episodesInFlight =
                             IF tree.episodes[key].loaded THEN @
                             ELSE @ \cup {[scenarioId |-> scenarioId, sceneId |-> sceneId]}]
  /\ UNCHANGED <<videoPlayer, graph, annot, pathCase>>

\* fetchScenes(scenarioId) after the await.
DeliverScenes(scenarioId, outcome) ==
  /\ scenarioId \in tree.scenesInFlight
  /\ tree' = [tree EXCEPT
                !.scenesInFlight = @ \ {scenarioId},
                !.scenes[scenarioId] =
                   IF outcome = "list" THEN Loaded(SceneList(scenarioId))
                   ELSE IF outcome = "nolist" THEN Loaded({})
                   ELSE @,
                !.loadingScenes = None]
  /\ UNCHANGED <<videoPlayer, graph, annot, pathCase>>

\* fetchEpisodes(m.scenarioId, m.sceneId) after the await.
DeliverEpisodes(m, outcome) ==
  /\ m \in tree.episodesInFlight
  /\ tree' = [tree EXCEPT
                !.episodesInFlight = @ \ {m},
                !.episodes[EpisodesKey(m.scenarioId, m.sceneId)] =
                   IF outcome = "list" THEN Loaded(EpisodeList(m.scenarioId, m.sceneId))
                   ELSE IF outcome = "nolist" THEN Loaded({})
                   ELSE @,
                !.loadingEpisodes = None]
  /\ UNCHANGED <<videoPlayer, graph, annot, pathCase>>

TreeNext ==
  \/ \E o \in ListOutcomes : DeliverScenarios(o)
  \/ \E sc \in ScenarioIds : handleScenarioClick(sc)
  \/ \E sc \in ScenarioIds : \E sn \in SceneIds : handleSceneClick(sc, sn)
  \/ \E sc \in ScenarioIds : \E o \in ListOutcomes : DeliverScenes(sc, o)
  \/ \E m \in tree.episodesInFlight : \E o \in ListOutcomes : DeliverEpisodes(m, o)

TreeSpec == TreeInit /\ [][TreeNext]_vars

\* C27: while a scenes request for the expanded scenario is in flight,
\* loadingScenes is that scenario; while an episodes request for the
\* expanded scene of the expanded scenario is in flight, loadingEpisodes is
\* its key.
C27_LoadingMarkerAccurate ==
  /\ \A sc \in tree.scenesInFlight :
       tree.expandedScenario = sc => tree.loadingScenes = sc
  /\ \A m \in tree.episodesInFlight :
       (tree.expandedScenario = m.scenarioId /\ tree.expandedScene = m.sceneId)
         => tree.loadingEpisodes = EpisodesKey(m.scenarioId, m.sceneId)

\* C29: a scene is expanded only while a scenario is expanded that it
\* belongs to, and every scenario click leaves no scene expanded.
C29_ExpandedSceneUnderScenario ==
  /\ [](tree.expandedScene # None
          => /\ tree.expandedScenario # None
             /\ tree.expandedScene \in SceneList(tree.expandedScenario))
  /\ [][tree'.expandedScenario # tree.expandedScenario
          => tree'.expandedScene = None]_vars
C29_Witness ==
  /\ tree.expandedScenario = "lab"
  /\ tree.expandedScene = "scene_2"
  /\ tree.scenes["kitchen"].loaded

\* ---------------------------------------------------------------------------
\* InteractiveVideoPlayer (InteractiveVideoPlayer.tsx 15-96): the annotation
\* overlay and its text editor.
\* ---------------------------------------------------------------------------

\* The longest annotations list and the latest Date.now() the model explores.
MaxAnnotations == 2
MaxNow == 3

\* containerRef.current.getBoundingClientRect(): width and height.
RectWidth == 200
RectHeight == 100

\* Where a click lands (clientX - rect.left, clientY - rect.top), what
\* videoRef.current.currentTime reads, and what the user types.
ClickPoints == {<<100, 40>>, <<20, 90>>}
CurrentTimes == {0, 5}
Texts == {"", "note"}

\* Date.now().toString()
Digit == <<"0", "1", "2", "3", "4", "5", "6", "7", "8", "9">>
RECURSIVE NumberToString(_)
NumberToString(n) ==
  IF n < 10 THEN Digit[n + 1]
  ELSE NumberToString(n \div 10) \o Digit[(n % 10) + 1]

\* editingAnnotation = null
NoAnnotation == [id |-> "", x |-> 0, y |-> 0, text |-> "", timestamp |-> 0]

\* y > rect.height * 0.8, in tenths to stay in the integers.
InControlsArea(y) == y * 10 > RectHeight * 8

\* annotations.sort((a, b) => a.timestamp - b.timestamp) of the render, which
\* sorts the state array in place: the place a new element is moved to.
SortedInsert(list, a) ==
  LET before == {i \in 1..Len(list) : list[i].timestamp <= a.timestamp}
      k == Cardinality(before)
  IN  IF \A i \in 1..Len(list) : i \in before <=> i <= k
      THEN SubSeq(list, 1, k) \o <<a>> \o SubSeq(list, k + 1, Len(list))
      ELSE list \o <<a>>

\* prev.filter(ann => ann.id !== id)
RECURSIVE FilterOutId(_, _)
FilterOutId(list, id) ==
  IF list = <<>> THEN <<>>
  ELSE IF Head(list).id # id THEN <<Head(list)>> \o FilterOutId(Tail(list), id)
  ELSE FilterOutId(Tail(list), id)

\* prev.map(ann => ann.id === editingAnnotation.id ? {...ann, text} : ann)
MapSetText(list, id, text) ==
  [i \in 1..Len(list) |->
     IF list[i].id = id THEN [list[i] EXCEPT !.text = text] ELSE list[i]]

\* The text input modal is rendered: isEditing && editingAnnotation.
ModalShown == annot.isEditing /\ annot.editingAnnotation # NoAnnotation

AnnotInit ==
  /\ VideoPlayerInit
  /\ graph = GraphUnused
  /\ tree = TreeUnused
  /\ pathCase = PathUnused
  /\ annot = [annotations |-> <<>>,
              isEditing |-> FALSE,
              editingAnnotation |-> NoAnnotation,
              tempText |-> "",
              now |-> 1,
              last |-> "mount"]

\* handleVideoClick: a click on the wrapper at point, at clock reading t,
\* with the video at currentTime.
handleVideoClick(point, t, currentTime) ==
  /\ t \in {annot.now, annot.now + 1}
  /\ t <= MaxNow
  /\ Len(annot.annotations) < MaxAnnotations
  /\ IF InControlsArea(point[2])
     THEN annot' = [annot EXCEPT !.now = t, !.last = "ignoredClick"]
     ELSE LET newAnnotation == [id |-> NumberToString(t),
                                x |-> (point[1] * 100) \div RectWidth,
                                y |-> (point[2] * 100) \div RectHeight,
                                text |-> "",
                                timestamp |-> currentTime]
          IN  annot' = [annot EXCEPT
                          !.annotations = SortedInsert(@, newAnnotation),
                          !.editingAnnotation = newAnnotation,
                          !.tempText = "",
                          !.isEditing = TRUE,
                          !.now = t,
                          !.last = "videoClick"]
  /\ UNCHANGED <<videoPlayer, graph, tree, pathCase>>

\* handleAnnotationClick: a click on the marker of the i-th annotation.
handleAnnotationClick(i) ==
  /\ i \in 1..Len(annot.annotations)
  /\ annot' = [annot EXCEPT
                 !.editingAnnotation = annot.annotations[i],
                 !.tempText = annot.annotations[i].text,
                 !.isEditing = TRUE,
                 !.last = "markerClick"]
  /\ UNCHANGED <<videoPlayer, graph, tree, pathCase>>

\* handleDeleteAnnotation that leaves the editor as it is.
handleDeleteAnnotation_KeepsEditor(i) ==
  /\ i \in 1..Len(annot.annotations)
  /\ LET id == annot.annotations[i].id
     IN  annot' = [annot EXCEPT
                     !.annotations = FilterOutId(@, id),
                     !.last = IF annot.editingAnnotation.id = id
                              THEN "deleteEdited" ELSE "delete"]
  /\ UNCHANGED <<videoPlayer, graph, tree, pathCase>>

\* handleDeleteAnnotation: a click on the delete button of the i-th
\* annotation, on its marker or in the list.
handleDeleteAnnotation(i) ==
  /\ i \in 1..Len(annot.annotations)
  /\ LET id == annot.annotations[i].id
         edited == annot.editingAnnotation # NoAnnotation
                     /\ annot.editingAnnotation.id = id
     IN  annot' = [annot EXCEPT
                     !.annotations = FilterOutId(@, id),
                     !.isEditing = IF edited THEN FALSE ELSE @,
                     !.editingAnnotation = IF edited THEN NoAnnotation ELSE @,
                     !.last = IF edited THEN "deleteEdited" ELSE "delete"]
  /\ UNCHANGED <<videoPlayer, graph, tree, pathCase>>

\* The textarea's onChange: setTempText(e.target.value).
setTempText(text) ==
  /\ ModalShown
  /\ text # annot.tempText
  /\ annot' = [annot EXCEPT !.tempText = text, !.last = "type"]
  /\ UNCHANGED <<videoPlayer, graph, tree, pathCase>>

\* handleTextSubmit: Save, or Enter in the textarea.
handleTextSubmit ==
  /\ ModalShown
  /\ annot' = [annot EXCEPT
                 !.annotations = MapSetText(@, annot.editingAnnotation.id,
                                            annot.tempText),
                 !.isEditing = FALSE,
                 !.editingAnnotation = NoAnnotation,
                 !.tempText = "",
                 !.last = "submit"]
  /\ UNCHANGED <<videoPlayer, graph, tree, pathCase>>

\* handleTextCancel: Cancel, or Escape in the textarea.
handleTextCancel ==
  /\ ModalShown
  /\ annot' = [annot EXCEPT
                 !.isEditing = FALSE,
                 !.editingAnnotation = NoAnnotation,
                 !.tempText = "",
                 !.last = "cancel"]
  /\ UNCHANGED <<videoPlayer, graph, tree, pathCase>>

AnnotNext ==
  \/ \E point \in ClickPoints : \E t \in 1..MaxNow : \E ct \in CurrentTimes :
       handleVideoClick(point, t, ct)
  \/ \E i \in 1..MaxAnnotations : handleAnnotationClick(i)
  \/ \E i \in 1..MaxAnnotations : handleDeleteAnnotation(i)
  \/ \E text \in Texts : setTempText(text)
  \/ handleTextSubmit
  \/ handleTextCancel

AnnotSpec == AnnotInit /\ [][AnnotNext]_vars

\* The ids of the annotations in the list.
AnnotationIds(a) == {a.annotations[i].id : i \in 1..Len(a.annotations)}

\* C28: while the editor is open, editingAnnotation is set and its id is the
\* id of an annotation in the list; the step that deletes the annotation
\* being edited closes the editor.
C28_EditorTargetsListedAnnotation ==
  /\ [](annot.isEditing
          => /\ annot.editingAnnotation # NoAnnotation
             /\ annot.editingAnnotation.id \in AnnotationIds(annot))
  /\ [][(/\ annot.isEditing
         /\ annot.editingAnnotation.id \in AnnotationIds(annot)
         /\ annot.editingAnnotation.id \notin AnnotationIds(annot'))
          => ~annot'.isEditing]_vars
C28_Witness ==
  /\ annot.last = "deleteEdited"
  /\ ~annot.isEditing
  /\ Len(annot.annotations) = 1
  /\ annot.annotations[1].text = "note"

====
